---- MODULE Spec2Model ----
(***************************************************************************)
(* Model of the GCS-to-BigQuery ingestion function:                        *)
(*   - build_query (gcs_to_bigquery.py): the query compiler, as an         *)
(*     operator over character sequences;                                  *)
(*   - GCStoBigQuery.__run_query: the time-bounded polling job runner;     *)
(*   - GCStoBigQuery.run: the probe / write orchestration;                 *)
(*   - process (processor.py): the object list, the try/except around      *)
(*     run, the Pub/Sub notifications;                                     *)
(*   - gcs_to_bq (main.py): the request check and the HTTP status code.    *)
(* Python strings are sequences of one-character strings.  An Optional     *)
(* value is a sequence of length at most one: None is <<>>, Some(x) is     *)
(* <<x>>.                                                                  *)
(***************************************************************************)
EXTENDS Integers, Sequences, FiniteSets, TLC

VARIABLES
    configuration,               \* Configuration: mode, file_schema, additional_columns
    additional_columns_request,  \* BodyRequest.additional_columns
    timeout,                     \* Environment.timeout (seconds)
    elapsed,                     \* time.perf_counter() - ctx.start_time (seconds)
    pc,                          \* position of the single thread of control
    job,                         \* the job __run_query is working on
    submitted,                   \* per job: number of bigquery_client.query calls
    cancels,                     \* per job: number of query_job.cancel calls
    fetches,                     \* per job: number of query_job.result calls
    loop_exit,                   \* per job: how the polling loop was left
    fetch_outcome,               \* per job: what query_job.result did
    query_result,                \* the (RowIterator, Exception) pair __run_query returned
    nb_lines,                    \* run's nb_lines
    query,                       \* what build_query produced
    exc,                         \* exception propagating out of run / caught by process
    run_result,                  \* the triple returned by GCStoBigQuery.run
    result,                      \* the tuple process ends with (object_ids apart)
    request,                     \* BodyRequest: which of object_id and folder it carries
    env_has_version,             \* whether ctx.env has a version attribute
    object_ids,                  \* process's object_ids
    published,                   \* the Pub/Sub messages published, in order
    response,                    \* the HTTP status code gcs_to_bq answers with
    escaped,                     \* exception that left process uncaught
    tmp_table_name,              \* run's tmp_table_name
    refreshes,                   \* per job: number of query_job.done()/running() refreshes
    submitted_at                 \* per job: elapsed time at the bigquery_client.query call

vars == <<configuration, additional_columns_request, timeout, elapsed, pc, job,
          submitted, cancels, fetches, loop_exit, fetch_outcome, query_result,
          nb_lines, query, exc, run_result, result, request, env_has_version,
          object_ids, published, response, escaped, tmp_table_name, refreshes,
          submitted_at>>

----------------------------------------------------------------------------
(* Bounds of the model *)

\* longest additional-column list and request-value list explored
MaxCols == 2
\* timeouts explored: CancelThreshold - 1 .. CancelThreshold + TimeoutSlack
TimeoutSlack == 2
\* the polling loops of one invocation sleep at most this many seconds in all
MaxElapsed == 5
\* largest row count the probe reports
MaxCount == 2
\* most objects find_object_ids lists in a folder
MaxObjects == 2

----------------------------------------------------------------------------
(* Optional values and Python strings *)

None == <<>>
Some(x) == <<x>>
IsNone(o) == Len(o) = 0
Val(o) == o[1]

\* str(None), as an f-string renders it
NoneStr == <<"N", "o", "n", "e">>
\* the " AS " of f"{expression} AS {name}"
AsStr == <<" ", "A", "S", " ">>
\* the ", \n  " that joins the projected fields
JoinStr == <<",", " ", "\n", " ", " ">>
SelectStr == <<"S", "E", "L", "E", "C", "T", " ", "\n", " ", " ">>
FromStr == <<" ", "\n", "F", "R", "O", "M", " ">>

Digit(d) == <<"0", "1", "2", "3", "4", "5", "6", "7", "8", "9">>[d + 1]

RECURSIVE IntToStr(_)
\* str(n) for a non-negative int
IntToStr(n) == IF n < 10 THEN <<Digit(n)>>
               ELSE IntToStr(n \div 10) \o <<Digit(n % 10)>>

\* str(value) of an AdditionalColumnBodyRequest value (Union[str, int]):
\* a str is rendered as its bare text, an int as its decimal digits
StrOf(value) == IF value.t = "int" THEN IntToStr(value.n) ELSE value.s

RECURSIVE Replace(_, _, _)
\* s.replace(old, new) for a non-empty old: leftmost non-overlapping matches
Replace(s, old, new) ==
    IF Len(s) < Len(old) THEN s
    ELSE IF SubSeq(s, 1, Len(old)) = old
         THEN new \o Replace(SubSeq(s, Len(old) + 1, Len(s)), old, new)
         ELSE <<s[1]>> \o Replace(Tail(s), old, new)

RECURSIVE Join(_, _)
\* sep.join(parts)
Join(parts, sep) ==
    IF Len(parts) = 0 THEN <<>>
    ELSE IF Len(parts) = 1 THEN parts[1]
    ELSE parts[1] \o sep \o Join(Tail(parts), sep)

\* f"{x}" of an Optional[str]
FormatOpt(o) == IF IsNone(o) THEN NoneStr ELSE Val(o)

----------------------------------------------------------------------------
(* build_query *)

\* outcomes of building one projected field, or the whole query
Ok(text) == [kind |-> "ok", text |-> text]
Raise(e) == [kind |-> e, text |-> <<>>]

\* every file field aliased, transformation or not
FieldQueryField_alias(f) ==
    (IF IsNone(f.transformation) THEN NoneStr
     ELSE FormatOpt(Val(f.transformation).expression)) \o AsStr \o f.name

\* f.name if f.transformation is None else f"{f.transformation.expression} AS {f.name}"
FieldQueryField(f) ==
    IF IsNone(f.transformation) THEN f.name
    ELSE FormatOpt(Val(f.transformation).expression) \o AsStr \o f.name

\* the requests whose name is the column's, in request order
Matching(reqs, name) == SelectSeq(reqs, LAMBDA r : r.name = name)

\* a lookup that falls back to the first request instead of failing
LookupRequest_default(reqs, name) ==
    IF Len(Matching(reqs, name)) > 0 THEN Some(Matching(reqs, name)[1])
    ELSE IF Len(reqs) > 0 THEN Some(reqs[1])
    ELSE Some([name |-> name, value |-> [t |-> "str", s |-> <<>>, n |-> 0]])

\* next(r for r in additional_columns_request if r.name == col.name):
\* the first match, None standing for the StopIteration of an exhausted generator
LookupRequest(reqs, name) ==
    IF Len(Matching(reqs, name)) > 0 THEN Some(Matching(reqs, name)[1]) ELSE None

\* the body of the loop over additional_columns, for one column
ColumnQueryField(col, reqs) ==
    IF col.in_request
    THEN LET found == LookupRequest(reqs, col.name) IN
         IF IsNone(found) THEN Raise("StopIteration")
         ELSE LET col_request == Val(found)
                  expression ==
                      IF ~IsNone(col.transformation)
                         /\ ~IsNone(Val(col.transformation).expression)
                      THEN Replace(Val(Val(col.transformation).expression),
                                   col.name, StrOf(col_request.value))
                      ELSE StrOf(col_request.value)
              IN Ok(expression \o AsStr \o col.name)
    ELSE IF IsNone(col.transformation) THEN Raise("AttributeError")
         ELSE Ok(FormatOpt(Val(col.transformation).expression) \o AsStr \o col.name)

RECURSIVE ColumnsLoop(_, _, _, _)
\* for col in additional_columns: ... query_fields.append(query_field);
\* the first column that raises ends the loop
ColumnsLoop(cols, reqs, i, query_fields) ==
    IF i > Len(cols) THEN [kind |-> "ok", fields |-> query_fields]
    ELSE LET r == ColumnQueryField(cols[i], reqs) IN
         IF r.kind # "ok" THEN [kind |-> r.kind, fields |-> <<>>]
         ELSE ColumnsLoop(cols, reqs, i + 1, Append(query_fields, r.text))

build_query(fields, additional_columns, reqs, relation) ==
    LET file_part == [i \in 1..Len(fields) |-> FieldQueryField(fields[i])]
        looped == ColumnsLoop(additional_columns, reqs, 1, file_part)
    IN IF looped.kind # "ok" THEN Raise(looped.kind)
       ELSE Ok(SelectStr \o Join(looped.fields, JoinStr) \o FromStr \o relation)

\* f"{self.configuration.table}_tmp", for the one table of the model
TmpTableName == <<"t", "_", "t", "m", "p">>

----------------------------------------------------------------------------
(* Inputs *)

Names == {<<"a">>, <<"b">>}

\* an expression that mentions column a, and the transformation blocks a
\* configuration can declare: none, one without expression, one with
ExprA == <<"f", "(", "a", ")">>
Transformations == {None, Some([expression |-> None]), Some([expression |-> Some(ExprA)])}

AdditionalColumns ==
    [name : Names, in_request : BOOLEAN, transformation : Transformations]

StrValue(s) == [t |-> "str", s |-> s, n |-> 0]
IntValue(n) == [t |-> "int", s |-> <<>>, n |-> n]
RequestValues == {StrValue(<<"x">>), IntValue(12)}
ColumnRequests == [name : Names, value : RequestValues]

SeqsUpTo(S, n) == UNION {[1..k -> S] : k \in 0..n}

FieldId == [name |-> <<"i", "d">>, transformation |-> None]
FieldUpper == [name |-> <<"n">>, transformation |-> Some([expression |-> Some(<<"U">>)])]
FieldNoExpr == [name |-> <<"n">>, transformation |-> Some([expression |-> None])]
FileSchemas == {<<>>, <<FieldId, FieldUpper>>, <<FieldNoExpr>>}

Modes == {"APPEND", "TRUNCATE"}

\* the configurations an invocation is run with: one whose query compiles,
\* one whose request value is missing, one whose static column has no
\* transformation block
ColRequested == [name |-> <<"a">>, in_request |-> TRUE, transformation |-> None]
ColStaticBare == [name |-> <<"b">>, in_request |-> FALSE, transformation |-> None]
RunInputs ==
    { [cols |-> <<ColRequested>>, reqs |-> <<[name |-> <<"a">>, value |-> StrValue(<<"x">>)]>>],
      [cols |-> <<ColRequested>>, reqs |-> <<>>],
      [cols |-> <<ColStaticBare>>, reqs |-> <<>>] }

----------------------------------------------------------------------------
(* The job runner: GCStoBigQuery.__run_query *)

\* "cancel if there is less than 20 seconds remaining"
CancelThreshold == 20

Jobs == {"probe", "write"}

\* a deadline that starts again with every job
remaining_time_perJob(t) ==
    IF job \in Jobs THEN timeout - (t - submitted_at[job]) ELSE timeout - t

\* Context.remaining_time: start_time + env.timeout - now, with start_time
\* taken once, when the Context of the invocation is built
remaining_time(t) == timeout - t

\* what query_job.result() can do: return rows (the probe's row carries an
\* nb_lines that may be NULL) or raise
Rows(count) == [kind |-> "rows", count |-> count, e |-> "none"]
Raises(e) == [kind |-> "raise", count |-> None, e |-> e]
NoOutcome == [kind |-> "none", count |-> None, e |-> "none"]

Exceptions == {"GoogleCloudError", "BadRequest", "TimeoutError",
               "ReadTimeoutError", "RemoteDisconnected", "RuntimeError"}

Counts == {None} \cup {Some(n) : n \in 0..MaxCount}

FetchOutcomes(j) ==
    (IF j = "probe" THEN {Rows(c) : c \in Counts} ELSE {Rows(None)})
    \cup {Raises(e) : e \in Exceptions}

\* the except chain without its RemoteDisconnected clause
ExceptClause_noDisconnect(e) ==
    IF e \in {"GoogleCloudError", "BadRequest"} THEN 1
    ELSE IF e \in {"TimeoutError", "ReadTimeoutError"} THEN 2
    ELSE 5

\* the except chain whose last clause returns the error like the others
ExceptClause_catchAll(e) ==
    IF e \in {"GoogleCloudError", "BadRequest"} THEN 1
    ELSE IF e \in {"TimeoutError", "ReadTimeoutError"} THEN 2
    ELSE IF e = "RemoteDisconnected" THEN 4
    ELSE 4

\* the except clause of __run_query that handles e, in source order;
\* BadRequest is a GoogleCloudError, so the first clause takes it and the
\* third never runs; clause 5 is "except Exception: raise e"
ExceptClause(e) ==
    IF e \in {"GoogleCloudError", "BadRequest"} THEN 1
    ELSE IF e \in {"TimeoutError", "ReadTimeoutError"} THEN 2
    ELSE IF e = "RemoteDisconnected" THEN 4
    ELSE 5

Success(count) == [result |-> Some(count), err |-> None]
Failure(e) == [result |-> None, err |-> Some(e)]

\* a runner that reports a cancelled job as failed whatever the fetch returns
RunnerOutcome_cancelDecides(out, cancellation_requested) ==
    IF cancellation_requested
    THEN [raised |-> None, ret |-> Some(Failure("GoogleCloudError"))]
    ELSE IF out.kind = "rows"
    THEN [raised |-> None, ret |-> Some(Success(out.count))]
    ELSE IF ExceptClause(out.e) < 5
    THEN [raised |-> None, ret |-> Some(Failure(out.e))]
    ELSE [raised |-> Some(out.e), ret |-> None]

\* the try block of __run_query: what the runner returns or raises for a
\* fetch outcome; whether cancellation was requested plays no part
RunnerOutcome(out, cancellation_requested) ==
    IF out.kind = "rows"
    THEN [raised |-> None, ret |-> Some(Success(out.count))]
    ELSE IF ExceptClause(out.e) < 5
    THEN [raised |-> None, ret |-> Some(Failure(out.e))]
    ELSE [raised |-> Some(out.e), ret |-> None]

\* where run resumes once __run_query returns
CheckPc(j) == IF j = "probe" THEN "probe_check" ELSE "write_check"

\* a loop whose cancellation exit returns without fetching
LoopExitPc_skipFetch(j, by_cancel) == IF by_cancel THEN CheckPc(j) ELSE "fetch"

\* both breaks of the polling loop lead to the try block
LoopExitPc(j, by_cancel) == "fetch"

\* bigquery_client.query(...)
Submit ==
    /\ pc = "submit"
    /\ submitted' = [submitted EXCEPT ![job] = @ + 1]
    /\ pc' = "sleep"
    /\ submitted_at' = [submitted_at EXCEPT ![job] = elapsed]
    /\ UNCHANGED <<request, env_has_version, object_ids, published, response, escaped,
                   tmp_table_name, refreshes,
                   configuration, additional_columns_request, timeout, elapsed, job,
                   cancels, fetches, loop_exit, fetch_outcome, query_result,
                   nb_lines, query, exc, run_result, result>>

\* time.sleep(1); to_cancel = ctx.remaining_time() < 20
Sleep ==
    /\ pc = "sleep"
    /\ elapsed < MaxElapsed
    /\ elapsed' = elapsed + 1
    /\ pc' = IF remaining_time(elapsed') < CancelThreshold THEN "cancel" ELSE "refresh"
    /\ UNCHANGED <<request, env_has_version, object_ids, published, response, escaped,
                   tmp_table_name, refreshes, submitted_at,
                   configuration, additional_columns_request, timeout, job, submitted,
                   cancels, fetches, loop_exit, fetch_outcome, query_result,
                   nb_lines, query, exc, run_result, result>>

\* cancellation_sent = query_job.cancel(); if cancellation_sent: break
Cancel ==
    /\ pc = "cancel"
    /\ cancels' = [cancels EXCEPT ![job] = @ + 1]
    /\ \E cancellation_sent \in BOOLEAN :
          IF cancellation_sent
          THEN /\ pc' = LoopExitPc(job, TRUE)
               /\ loop_exit' = [loop_exit EXCEPT ![job] = "cancel"]
          ELSE /\ pc' = "refresh"
               /\ UNCHANGED loop_exit
    /\ UNCHANGED <<request, env_has_version, object_ids, published, response, escaped,
                   tmp_table_name, refreshes, submitted_at,
                   configuration, additional_columns_request, timeout, elapsed, job,
                   submitted, fetches, fetch_outcome, query_result,
                   nb_lines, query, exc, run_result, result>>

\* query_job.done(); running = query_job.running(); if not running: break
Refresh ==
    /\ pc = "refresh"
    /\ \E running \in BOOLEAN :
          IF ~running
          THEN /\ pc' = LoopExitPc(job, FALSE)
               /\ loop_exit' = [loop_exit EXCEPT ![job] = "status"]
          ELSE /\ pc' = "sleep"
               /\ UNCHANGED loop_exit
    /\ refreshes' = [refreshes EXCEPT ![job] = @ + 1]
    /\ UNCHANGED <<request, env_has_version, object_ids, published, response, escaped,
                   tmp_table_name, submitted_at,
                   configuration, additional_columns_request, timeout, elapsed, job,
                   submitted, cancels, fetches, fetch_outcome, query_result,
                   nb_lines, query, exc, run_result, result>>

\* result = query_job.result() and the except chain around it
Fetch ==
    /\ pc = "fetch"
    /\ \E out \in FetchOutcomes(job) :
          LET r == RunnerOutcome(out, cancels[job] > 0) IN
          /\ fetches' = [fetches EXCEPT ![job] = @ + 1]
          /\ fetch_outcome' = [fetch_outcome EXCEPT ![job] = out]
          /\ IF IsNone(r.raised)
             THEN /\ query_result' = r.ret
                  /\ pc' = CheckPc(job)
                  /\ UNCHANGED exc
             ELSE /\ exc' = r.raised
                  /\ pc' = "except"
                  /\ UNCHANGED query_result
    /\ UNCHANGED <<request, env_has_version, object_ids, published, response, escaped,
                   tmp_table_name, refreshes, submitted_at,
                   configuration, additional_columns_request, timeout, elapsed, job,
                   submitted, cancels, loop_exit, nb_lines, query, run_result, result>>

----------------------------------------------------------------------------
(* The orchestrator: GCStoBigQuery.run *)

RunResult(status, err, rows) == [status |-> status, err |-> err, rows |-> rows]

\* a probe check that never takes the error branch
ProbeFailed_never(qr) == FALSE

\* if query_result[1] is not None
ProbeFailed(qr) == ~IsNone(qr.err)

\* the row's nb_lines taken as it comes, NULL included
NbLines_raw(count) == count

\* nb_lines = r.get("nb_lines") or 0
NbLines(count) == IF IsNone(count) THEN Some(0) ELSE count

\* tmp_table_name, job_config and the probe query; enters __run_query
RunStart ==
    /\ pc = "run"
    /\ job' = "probe"
    /\ pc' = "submit"
    /\ tmp_table_name' = TmpTableName
    /\ UNCHANGED <<request, env_has_version, object_ids, published, response, escaped,
                   refreshes, submitted_at,
                   configuration, additional_columns_request, timeout, elapsed,
                   submitted, cancels, fetches, loop_exit, fetch_outcome,
                   query_result, nb_lines, query, exc, run_result, result>>

\* the probe's result: error, empty input, or on to the write phase
ProbeCheck ==
    /\ pc = "probe_check"
    /\ LET qr == Val(query_result) IN
       IF ProbeFailed(qr)
       THEN /\ run_result' = Some(RunResult("ERROR", qr.err, None))
            /\ pc' = "returned"
            /\ UNCHANGED <<nb_lines, exc>>
       ELSE IF IsNone(qr.result)
       THEN \* next(iter(None))
            /\ exc' = Some("TypeError")
            /\ pc' = "except"
            /\ UNCHANGED <<nb_lines, run_result>>
       ELSE /\ nb_lines' = NbLines(Val(qr.result))
            /\ IF nb_lines' = Some(0)
               THEN /\ run_result' = Some(RunResult("DONE", None, nb_lines'))
                    /\ pc' = "returned"
               ELSE /\ pc' = "compile"
                    /\ UNCHANGED run_result
            /\ UNCHANGED exc
    /\ UNCHANGED <<request, env_has_version, object_ids, published, response, escaped,
                   tmp_table_name, refreshes, submitted_at,
                   configuration, additional_columns_request, timeout, elapsed, job,
                   submitted, cancels, fetches, loop_exit, fetch_outcome,
                   query_result, query, result>>

\* destination, dispositions, partitioning and build_query; a query that
\* compiles enters __run_query for the write job
CompileWrite ==
    /\ pc = "compile"
    /\ LET q == build_query(configuration.file_schema,
                            configuration.additional_columns,
                            additional_columns_request, tmp_table_name) IN
       /\ query' = Some(q)
       /\ IF q.kind = "ok"
          THEN /\ job' = "write"
               /\ pc' = "submit"
               /\ UNCHANGED exc
          ELSE /\ exc' = Some(q.kind)
               /\ pc' = "except"
               /\ UNCHANGED job
    /\ UNCHANGED <<request, env_has_version, object_ids, published, response, escaped,
                   tmp_table_name, refreshes, submitted_at,
                   configuration, additional_columns_request, timeout, elapsed,
                   submitted, cancels, fetches, loop_exit, fetch_outcome,
                   query_result, nb_lines, run_result, result>>

\* the write job's result
WriteCheck ==
    /\ pc = "write_check"
    /\ LET qr == Val(query_result) IN
       run_result' = IF ~IsNone(qr.err)
                     THEN Some(RunResult("ERROR", qr.err, nb_lines))
                     ELSE Some(RunResult("DONE", None, nb_lines))
    /\ pc' = "returned"
    /\ UNCHANGED <<request, env_has_version, object_ids, published, response, escaped,
                   tmp_table_name, refreshes, submitted_at,
                   configuration, additional_columns_request, timeout, elapsed, job,
                   submitted, cancels, fetches, loop_exit, fetch_outcome,
                   query_result, nb_lines, query, exc, result>>

----------------------------------------------------------------------------
(* process: the try/except around the configuration and the run *)

\* configuration = extract_configuration_from_gcs(...): found and parsed,
\* NotFound turned into ConfigurationNotFoundException, or a document that
\* Configuration(...) cannot read (a missing key)
ExtractConfiguration ==
    /\ pc = "extract"
    /\ \/ /\ pc' = "run"
          /\ UNCHANGED exc
       \/ /\ \E e \in {"ConfigurationNotFoundException", "KeyError"} : exc' = Some(e)
          /\ pc' = "except"
    /\ UNCHANGED <<request, env_has_version, object_ids, published, response, escaped,
                   tmp_table_name, refreshes, submitted_at,
                   configuration, additional_columns_request, timeout, elapsed, job,
                   submitted, cancels, fetches, loop_exit, fetch_outcome,
                   query_result, nb_lines, query, run_result, result>>

\* result = (run_result[0], run_result[1], run_result[2], object_ids)
ProcessResult ==
    /\ pc = "returned"
    /\ result' = run_result
    /\ pc' = "notify"
    /\ UNCHANGED <<request, env_has_version, object_ids, published, response, escaped,
                   tmp_table_name, refreshes, submitted_at,
                   configuration, additional_columns_request, timeout, elapsed, job,
                   submitted, cancels, fetches, loop_exit, fetch_outcome,
                   query_result, nb_lines, query, exc, run_result>>

\* except Exception as e: result = ("ERROR", e, None, object_ids)
ProcessExcept ==
    /\ pc = "except"
    /\ result' = Some(RunResult("ERROR", exc, None))
    /\ pc' = "notify"
    /\ UNCHANGED <<request, env_has_version, object_ids, published, response, escaped,
                   tmp_table_name, refreshes, submitted_at,
                   configuration, additional_columns_request, timeout, elapsed, job,
                   submitted, cancels, fetches, loop_exit, fetch_outcome,
                   query_result, nb_lines, query, exc, run_result>>

----------------------------------------------------------------------------
(* gcs_to_bq and the rest of process: object list, error-reporting client,
   notifications, HTTP status *)

\* the requests gcs_to_bq parses: objectId and folder are each present or not
Requests == [object_id : BOOLEAN, folder : BOOLEAN]

\* a run is a folder run when the request carries no objectId
FolderRun == ~request.object_id

\* every message goes to the normal topic
TopicFor_normal(status) == "pub_sub_topic"

\* send_pub_sub_message: the error topic if status.upper() == "ERROR"
TopicFor(status) ==
    IF status = "ERROR" THEN "pub_sub_error_topic" ELSE "pub_sub_topic"

\* the payload send_pub_sub_message publishes, with the topic it goes to
Message(status, errors, lines, object_id, folder) ==
    [topic |-> TopicFor(status), result |-> status, errors |-> errors,
     objectId |-> object_id, folder |-> folder, linesTreated |-> lines]

\* the status code gcs_to_bq derives from the result of process
StatusCode(status, objects) ==
    IF status # "DONE" THEN 500
    ELSE IF Len(objects) = 0 THEN 200
    ELSE 201

\* gcs_to_bq up to the call of process: a request with neither objectId nor
\* folder is answered 400 without calling process
HttpEntry ==
    /\ pc = "http"
    /\ IF ~request.object_id /\ ~request.folder
       THEN /\ response' = Some(400)
            /\ pc' = "done"
       ELSE /\ pc' = "process"
            /\ UNCHANGED response
    /\ UNCHANGED <<request, env_has_version, object_ids, published, escaped,
                   tmp_table_name, refreshes, submitted_at,
                   configuration, additional_columns_request, timeout, elapsed, job,
                   submitted, cancels, fetches, loop_exit, fetch_outcome,
                   query_result, nb_lines, query, exc, run_result, result>>

\* the object list: the request's object, or what find_object_ids lists in
\* the folder; an empty folder returns ("DONE", None, None, []) at once
ProcessStart ==
    /\ pc = "process"
    /\ IF request.object_id
       THEN /\ object_ids' = <<1>>
            /\ pc' = "client"
            /\ UNCHANGED result
       ELSE \E n \in 0..MaxObjects :
               /\ object_ids' = [i \in 1..n |-> i]
               /\ IF n = 0
                  THEN /\ result' = Some(RunResult("DONE", None, None))
                       /\ pc' = "respond"
                  ELSE /\ pc' = "client"
                       /\ UNCHANGED result
    /\ UNCHANGED <<request, env_has_version, published, response, escaped,
                   tmp_table_name, refreshes, submitted_at,
                   configuration, additional_columns_request, timeout, elapsed, job,
                   submitted, cancels, fetches, loop_exit, fetch_outcome,
                   query_result, nb_lines, query, exc, run_result>>

\* reporting_client = error_reporting.Client(service=ctx.env.function_name,
\* version=ctx.env.version), before the try: reading an attribute the
\* Environment does not have raises AttributeError out of process
ReportingClient ==
    /\ pc = "client"
    /\ IF env_has_version
       THEN /\ pc' = "extract"
            /\ UNCHANGED escaped
       ELSE /\ escaped' = Some("AttributeError")
            /\ pc' = "raised"
    /\ UNCHANGED <<request, env_has_version, object_ids, published, response,
                   tmp_table_name, refreshes, submitted_at,
                   configuration, additional_columns_request, timeout, elapsed, job,
                   submitted, cancels, fetches, loop_exit, fetch_outcome,
                   query_result, nb_lines, query, exc, run_result, result>>

\* one turn of "for object_id in object_ids: send_pub_sub_message(...)":
\* the message of the next object (lines only for a single-object run);
\* a failed publish raises PublishException out of process
Notify ==
    /\ pc = "notify"
    /\ LET i == Len(published) + 1
           r == Val(result)
           lines_treated == IF ~FolderRun THEN r.rows ELSE None
       IN \/ /\ published' = Append(published,
                    Message(r.status, r.err, lines_treated, Some(object_ids[i]), FALSE))
             /\ pc' = IF i < Len(object_ids) THEN "notify"
                      ELSE IF FolderRun THEN "aggregate" ELSE "respond"
             /\ UNCHANGED escaped
          \/ /\ escaped' = Some("PublishException")
             /\ pc' = "raised"
             /\ UNCHANGED published
    /\ UNCHANGED <<request, env_has_version, object_ids, response,
                   tmp_table_name, refreshes, submitted_at,
                   configuration, additional_columns_request, timeout, elapsed, job,
                   submitted, cancels, fetches, loop_exit, fetch_outcome,
                   query_result, nb_lines, query, exc, run_result, result>>

\* if request.object_id is None: the message for the folder, with the lines
Aggregate ==
    /\ pc = "aggregate"
    /\ LET r == Val(result)
       IN \/ /\ published' = Append(published,
                    Message(r.status, r.err, r.rows, None, TRUE))
             /\ pc' = "respond"
             /\ UNCHANGED escaped
          \/ /\ escaped' = Some("PublishException")
             /\ pc' = "raised"
             /\ UNCHANGED published
    /\ UNCHANGED <<request, env_has_version, object_ids, response,
                   tmp_table_name, refreshes, submitted_at,
                   configuration, additional_columns_request, timeout, elapsed, job,
                   submitted, cancels, fetches, loop_exit, fetch_outcome,
                   query_result, nb_lines, query, exc, run_result, result>>

\* process has returned: gcs_to_bq picks the status code of its response
Respond ==
    /\ pc = "respond"
    /\ response' = Some(StatusCode(Val(result).status, object_ids))
    /\ pc' = "done"
    /\ UNCHANGED <<request, env_has_version, object_ids, published, escaped,
                   tmp_table_name, refreshes, submitted_at,
                   configuration, additional_columns_request, timeout, elapsed, job,
                   submitted, cancels, fetches, loop_exit, fetch_outcome,
                   query_result, nb_lines, query, exc, run_result, result>>

----------------------------------------------------------------------------
(* Specifications *)

Timeouts == (CancelThreshold - 1)..(CancelThreshold + TimeoutSlack)

\* everything but the inputs, as it is when the function is entered
InitState(start) ==
    /\ elapsed = 0
    /\ pc = start
    /\ job = "none"
    /\ submitted = [j \in Jobs |-> 0]
    /\ cancels = [j \in Jobs |-> 0]
    /\ fetches = [j \in Jobs |-> 0]
    /\ loop_exit = [j \in Jobs |-> "none"]
    /\ fetch_outcome = [j \in Jobs |-> NoOutcome]
    /\ query_result = None
    /\ nb_lines = None
    /\ query = None
    /\ exc = None
    /\ run_result = None
    /\ result = None
    /\ object_ids = <<>>
    /\ published = <<>>
    /\ response = None
    /\ escaped = None
    /\ refreshes = [j \in Jobs |-> 0]
    /\ submitted_at = [j \in Jobs |-> 0]

\* one HTTP invocation of gcs_to_bq.  Environment.__init__ sets no version
\* attribute, so env_has_version is FALSE for the Context that gcs_to_bq
\* builds; TRUE is a ctx handed to process whose env carries one.
Init ==
    /\ \E in \in RunInputs, m \in Modes :
          /\ configuration = [mode |-> m, file_schema |-> <<FieldId>>,
                              additional_columns |-> in.cols]
          /\ additional_columns_request = in.reqs
    /\ timeout \in Timeouts
    /\ request \in Requests
    /\ env_has_version \in BOOLEAN
    /\ tmp_table_name = <<>>
    /\ InitState("http")

Next ==
    \/ HttpEntry
    \/ ProcessStart
    \/ ReportingClient
    \/ ExtractConfiguration
    \/ RunStart
    \/ Submit
    \/ Sleep
    \/ Cancel
    \/ Refresh
    \/ Fetch
    \/ ProbeCheck
    \/ CompileWrite
    \/ WriteCheck
    \/ ProcessResult
    \/ ProcessExcept
    \/ Notify
    \/ Aggregate
    \/ Respond

Spec == Init /\ [][Next]_vars

\* the inputs of the two worked examples: fields id and name (UPPER(raw_name)),
\* static column ingest_date (CURRENT_DATE()) over tmp_table; and requested
\* column source, without transformation, with request value "upload-api"
StrId ==
    <<"i", "d">>
StrName ==
    <<"n", "a", "m", "e">>
StrUpperRawName ==
    <<"U", "P", "P", "E", "R", "(", "r", "a", "w", "_", "n", "a", "m", "e",
      ")">>
StrIngestDate ==
    <<"i", "n", "g", "e", "s", "t", "_", "d", "a", "t", "e">>
StrCurrentDate ==
    <<"C", "U", "R", "R", "E", "N", "T", "_", "D", "A", "T", "E", "(", ")">>
StrTmpTable ==
    <<"t", "m", "p", "_", "t", "a", "b", "l", "e">>
StrSource ==
    <<"s", "o", "u", "r", "c", "e">>
StrUploadApi ==
    <<"u", "p", "l", "o", "a", "d", "-", "a", "p", "i">>

ExampleStatic ==
    [fs |-> <<[name |-> StrId, transformation |-> None],
              [name |-> StrName,
               transformation |-> Some([expression |-> Some(StrUpperRawName)])]>>,
     cols |-> <<[name |-> StrIngestDate, in_request |-> FALSE,
                 transformation |-> Some([expression |-> Some(StrCurrentDate)])]>>,
     reqs |-> <<>>,
     tmp |-> StrTmpTable]

ExampleRequested ==
    [fs |-> <<>>,
     cols |-> <<[name |-> StrSource, in_request |-> TRUE, transformation |-> None]>>,
     reqs |-> <<[name |-> StrSource, value |-> StrValue(StrUploadApi)]>>,
     tmp |-> StrTmpTable]

Examples == {ExampleStatic, ExampleRequested}

\* build_query applied to every bounded input and to the worked examples
InitQuery ==
    /\ \/ /\ \E fs \in FileSchemas, cols \in SeqsUpTo(AdditionalColumns, MaxCols) :
                configuration = [mode |-> "APPEND", file_schema |-> fs,
                                 additional_columns |-> cols]
          /\ additional_columns_request \in SeqsUpTo(ColumnRequests, MaxCols)
          /\ tmp_table_name = TmpTableName
       \/ \E ex \in Examples :
             /\ configuration = [mode |-> "APPEND", file_schema |-> ex.fs,
                                 additional_columns |-> ex.cols]
             /\ additional_columns_request = ex.reqs
             /\ tmp_table_name = ex.tmp
    /\ timeout = CancelThreshold
    /\ request = [object_id |-> TRUE, folder |-> FALSE]
    /\ env_has_version = FALSE
    /\ InitState("build_query")

BuildQuery ==
    /\ pc = "build_query"
    /\ query' = Some(build_query(configuration.file_schema,
                                 configuration.additional_columns,
                                 additional_columns_request, tmp_table_name))
    /\ pc' = "built"
    /\ UNCHANGED <<request, env_has_version, object_ids, published, response, escaped,
                   tmp_table_name, refreshes, submitted_at,
                   configuration, additional_columns_request, timeout, elapsed, job,
                   submitted, cancels, fetches, loop_exit, fetch_outcome,
                   query_result, nb_lines, exc, run_result, result>>

NextQuery == BuildQuery

SpecQuery == InitQuery /\ [][NextQuery]_vars

----------------------------------------------------------------------------
(* Properties of the job runner and the orchestrator (under Spec) *)

\* the four classified errors of the fetch: job failure (BadRequest is one),
\* client-side timeout, transport disconnect
Classified == {"GoogleCloudError", "BadRequest", "TimeoutError",
               "ReadTimeoutError", "RemoteDisconnected"}

EmptyCounts == {None, Some(0)}

\* the positions past the try/except of process: notifying, answering, ended
AfterTry == {"notify", "aggregate", "respond", "done", "raised"}

\* C1: cancellation is requested at most once per job: no job ever sees a
\* second query_job.cancel call, even when the first one answers False and
\* the job still runs.
C1_CancelAtMostOnce == \A j \in Jobs : cancels[j] <= 1

\* C2: a job's result is fetched exactly once, after its polling loop has
\* been left by either break and never before: no fetch while the loop has
\* not exited, none yet when the loop has just exited, exactly one afterwards.
C2_FetchExactlyOnce ==
    \A j \in Jobs :
       /\ loop_exit[j] = "none" => fetches[j] = 0
       /\ loop_exit[j] # "none" =>
             IF job = j /\ pc = "fetch" THEN fetches[j] = 0 ELSE fetches[j] = 1

\* a job left its loop on an acknowledged cancellation and was fetched once,
\* and the invocation went on to its end
C2_Witness ==
    /\ pc = "done"
    /\ loop_exit["probe"] = "cancel" /\ fetches["probe"] = 1
    /\ loop_exit["write"] = "status" /\ fetches["write"] = 1

\* C3: when the probe's fetch succeeds with a count of zero or NULL, the
\* write job is never submitted and run, then process, return
\* (DONE, no error, 0 rows), in either mode and at any remaining time.
C3_EmptyProbeSkipsWrite ==
    (fetch_outcome["probe"].kind = "rows" /\ fetch_outcome["probe"].count \in EmptyCounts)
    => /\ submitted["write"] = 0
       /\ job = "probe"
       /\ pc \in {"probe_check", "returned"} \cup AfterTry
       /\ pc # "probe_check" => run_result = Some(RunResult("DONE", None, Some(0)))
       /\ pc \in AfterTry => result = Some(RunResult("DONE", None, Some(0)))

\* a TRUNCATE invocation whose probe reported a NULL count under deadline
\* pressure (cancellation had been requested) has returned
C3_Witness ==
    /\ pc = "done"
    /\ configuration.mode = "TRUNCATE"
    /\ fetch_outcome["probe"] = Rows(None)
    /\ cancels["probe"] > 0
    /\ result = Some(RunResult("DONE", None, Some(0)))

\* C4: a classified failure of the probe's fetch makes the invocation return
\* ERROR with exactly that error and no write job is submitted; the write job
\* is submitted only after a probe fetch that succeeded with a count above 0.
C4_ProbeFailureIsTerminal ==
    /\ (fetch_outcome["probe"].kind = "raise" /\ fetch_outcome["probe"].e \in Classified)
       => /\ submitted["write"] = 0
          /\ pc \in {"probe_check", "returned"} \cup AfterTry
          /\ pc # "probe_check" =>
                run_result = Some(RunResult("ERROR", Some(fetch_outcome["probe"].e), None))
          /\ pc \in AfterTry =>
                result = Some(RunResult("ERROR", Some(fetch_outcome["probe"].e), None))
    /\ (submitted["write"] > 0 \/ job = "write")
       => /\ fetch_outcome["probe"].kind = "rows"
          /\ ~IsNone(fetch_outcome["probe"].count)
          /\ Val(fetch_outcome["probe"].count) > 0

\* the probe timed out on the client side and the invocation returned
C4_Witness ==
    /\ pc = "done"
    /\ fetch_outcome["probe"] = Raises("TimeoutError")
    /\ result = Some(RunResult("ERROR", Some("TimeoutError"), None))

\* C5: the fetch alone decides the outcome: when cancellation was requested
\* for the current job and its fetch then returns rows, the runner returns
\* Success with those rows, and a write job so resolved ends the invocation
\* with DONE.
C5_FetchDecidesOutcome ==
    (job \in Jobs /\ cancels[job] > 0 /\ fetch_outcome[job].kind = "rows")
    => /\ query_result = Some(Success(fetch_outcome[job].count))
       /\ (job = "write" /\ pc \in AfterTry) => result = Some(RunResult("DONE", None, nb_lines))

\* the write job's cancellation was acknowledged, its fetch returned rows
\* all the same, and the invocation ended
C5_Witness ==
    /\ pc = "done"
    /\ loop_exit["write"] = "cancel"
    /\ fetch_outcome["write"].kind = "rows"
    /\ result = Some(RunResult("DONE", None, nb_lines))

\* C6: the polling loop is left by the iteration that follows the first one
\* with remaining_time() below 20 seconds at the latest: the loop never
\* starts another iteration after two iterations under the threshold
\* (each such iteration is one that called cancel).
C6_LoopLeftByDeadline == pc = "sleep" => cancels[job] <= 1

\* C7: a classified error of the fetch is returned, not raised: the runner
\* returns Failure with that error, run and process return ERROR with it (no
\* rows for the probe, the probe's count for the write), and nothing more is
\* submitted, polled or fetched in the invocation.
C7_ClassifiedFailureReturned ==
    \A j \in Jobs :
       (fetch_outcome[j].kind = "raise" /\ fetch_outcome[j].e \in Classified)
       => LET e == fetch_outcome[j].e
              rows == IF j = "probe" THEN None ELSE nb_lines
          IN /\ exc = None
             /\ job = j
             /\ query_result = Some(Failure(e))
             /\ pc \in {CheckPc(j), "returned"} \cup AfterTry
             /\ pc # CheckPc(j) => run_result = Some(RunResult("ERROR", Some(e), rows))
             /\ pc \in AfterTry => result = Some(RunResult("ERROR", Some(e), rows))
             /\ submitted[j] = 1 /\ fetches[j] = 1
             /\ j = "probe" => submitted["write"] = 0

\* the write job lost its connection during the fetch and the invocation
\* returned ERROR with the probe's count
C7_Witness ==
    /\ pc = "done"
    /\ fetch_outcome["write"] = Raises("RemoteDisconnected")
    /\ result = Some(RunResult("ERROR", Some("RemoteDisconnected"), nb_lines))
    /\ submitted = [j \in Jobs |-> 1]

Unexpected(j) == fetch_outcome[j].kind = "raise" /\ fetch_outcome[j].e \notin Classified

\* C8 as stated: an error of the fetch outside the classification propagates
\* out of the invocation: process never ends with an ordinary result tuple.
C8_UnexpectedNeverReturned ==
    (\E j \in Jobs : Unexpected(j)) => (result = None /\ pc \notin {"respond", "done"})

\* C8 amended: an error of the fetch outside the classification leaves the
\* runner and run unmodified, as an exception (neither returns anything for
\* it), and process catches it and returns (ERROR, that error, no rows).
C8_UnexpectedCaughtByProcess ==
    \A j \in Jobs :
       Unexpected(j)
       => /\ exc = Some(fetch_outcome[j].e)
          /\ job = j
          /\ query_result # Some(Failure(fetch_outcome[j].e))
          /\ run_result = None
          /\ pc \in {"except"} \cup AfterTry
          /\ pc \in AfterTry => result = Some(RunResult("ERROR", Some(fetch_outcome[j].e), None))

\* the write job's fetch raised an unclassified error and process returned
C8_Witness ==
    /\ pc = "done"
    /\ Unexpected("write")
    /\ result = Some(RunResult("ERROR", Some("RuntimeError"), None))

----------------------------------------------------------------------------
(* Properties of build_query (under SpecQuery) *)

\* column i is flagged in_request and no request value bears its name
Unmatched(i) ==
    /\ configuration.additional_columns[i].in_request
    /\ \A k \in 1..Len(additional_columns_request) :
          additional_columns_request[k].name # configuration.additional_columns[i].name

\* column i is not in_request and has no transformation block
NoBlock(i) ==
    /\ ~configuration.additional_columns[i].in_request
    /\ IsNone(configuration.additional_columns[i].transformation)

\* column i is not in_request and has no transformation expression
NoExpression(i) ==
    /\ ~configuration.additional_columns[i].in_request
    /\ \/ IsNone(configuration.additional_columns[i].transformation)
       \/ IsNone(Val(configuration.additional_columns[i].transformation).expression)

ColIndexes == 1..Len(configuration.additional_columns)

\* C9 as stated: build_query fails with a lookup error (StopIteration) if
\* and only if some in_request column has no request value of its name.
C9_LookupErrorIff ==
    pc = "built" =>
       (Val(query).kind = "StopIteration" <=> \E i \in ColIndexes : Unmatched(i))

\* C9 amended: build_query fails with a lookup error if and only if some
\* in_request column has no request value of its name and no column declared
\* before it is a non-request column without a transformation block.
C9_LookupErrorIffFirst ==
    pc = "built" =>
       (Val(query).kind = "StopIteration"
          <=> \E i \in ColIndexes :
                 Unmatched(i) /\ \A k \in 1..(i - 1) : ~NoBlock(k))

\* a lookup error raised for the second column, after a first that compiled
C9_Witness ==
    /\ pc = "built"
    /\ Val(query).kind = "StopIteration"
    /\ Len(configuration.additional_columns) = 2
    /\ ~Unmatched(1) /\ Unmatched(2)

\* C10: with a non-request column whose transformation expression is missing
\* (no block, or a block without expression), build_query fails and yields
\* no query text.
C10_MissingExpressionFails ==
    (pc = "built" /\ \E i \in ColIndexes : NoExpression(i)) => Val(query).kind # "ok"

----------------------------------------------------------------------------
(* Properties of process and gcs_to_bq (under Spec) *)

\* some step of process, past the object list, raised or a job failed
ErrorOccurred ==
    \/ ~IsNone(exc)
    \/ ~IsNone(escaped)
    \/ (~IsNone(run_result) /\ Val(run_result).status = "ERROR")

\* process is over: it returned to gcs_to_bq or an exception left it
ProcessEnded == pc \in {"respond", "raised"} \/ (pc = "done" /\ ~IsNone(result))

\* process returned its result
ProcessReturned == ~IsNone(result) /\ pc \in {"respond", "done"}

\* C11: every error arising in process once the object list is determined
\* is surfaced in the result (status ERROR) and in a notification with
\* result ERROR: process never ends after such an error without both.
C11_ErrorsSurfaced ==
    (ProcessEnded /\ ErrorOccurred)
    => /\ ~IsNone(result)
       /\ Val(result).status = "ERROR"
       /\ \E k \in 1..Len(published) : published[k].result = "ERROR"

\* the messages of a returned run: one per object, in order, then the
\* aggregate if there is one, all on the topic the status selects
MessagesOk(with_aggregate) ==
    LET r == Val(result)
        n == Len(object_ids)
        topic == IF r.status = "ERROR" THEN "pub_sub_error_topic" ELSE "pub_sub_topic"
    IN /\ Len(published) = n + (IF with_aggregate THEN 1 ELSE 0)
       /\ \A k \in 1..Len(published) :
             /\ published[k].topic = topic
             /\ published[k].result = r.status
             /\ IF k <= n
                THEN published[k].objectId = Some(object_ids[k]) /\ ~published[k].folder
                ELSE published[k].objectId = None /\ published[k].folder

\* C12 as stated: a run that returns has published one message per object,
\* plus one aggregate message when it is a folder run (a folder without
\* objects included), each on the error topic if the status is ERROR and on
\* the normal topic otherwise.
C12_NotificationsPerRun == ProcessReturned => MessagesOk(FolderRun)

\* C12 amended: ... plus one aggregate message when it is a folder run that
\* found at least one object; a folder run that finds no objects publishes
\* nothing.
C12_NotificationsPerNonEmptyRun ==
    ProcessReturned => MessagesOk(FolderRun /\ Len(object_ids) > 0)

\* a folder run over two objects ended in ERROR: two object messages and the
\* aggregate, on the error topic
C12_Witness ==
    /\ pc = "done"
    /\ FolderRun
    /\ Len(object_ids) = 2
    /\ Len(published) = 3
    /\ \A k \in 1..3 : published[k].topic = "pub_sub_error_topic"

\* C13: the response is 500 for a result that is not DONE, the empty-result
\* success (200) for a DONE result with no objects or zero rows, and
\* "created" (201) for a DONE result with objects and rows.
C13_ResponseClasses ==
    (~IsNone(response) /\ ~IsNone(result))
    => LET r == Val(result) IN
       Val(response) = IF r.status # "DONE" THEN 500
                       ELSE IF Len(object_ids) = 0 \/ r.rows = Some(0) THEN 200
                       ELSE 201

\* C16: the probe and the write job run against one deadline, so the
\* remaining time never increases; the write job is submitted as soon as the
\* probe counted rows and the query compiled, whatever time remains; a write
\* job submitted with less than 20 seconds remaining is asked to cancel in
\* every iteration before its status is refreshed, from the first one on;
\* and an acknowledged cancellation leaves the loop without a refresh.
C16_State ==
    /\ (~IsNone(query) /\ Val(query).kind = "ok")
       => /\ job = "write"
          /\ pc = "submit" \/ submitted["write"] = 1
    /\ (submitted["write"] = 1 /\ timeout - submitted_at["write"] < CancelThreshold)
       => /\ refreshes["write"] <= cancels["write"]
          /\ pc = "refresh" => cancels["write"] = refreshes["write"] + 1
          /\ loop_exit["write"] = "cancel" => refreshes["write"] = cancels["write"] - 1

C16_Step ==
    /\ remaining_time(elapsed)' <= remaining_time(elapsed)
    /\ \A j \in Jobs :
          (loop_exit[j] = "none" /\ loop_exit'[j] = "cancel")
          => (refreshes' = refreshes /\ pc' = "fetch")

----------------------------------------------------------------------------
(* Properties of the query text (under SpecQuery) *)

HasPrefix(s, p) == Len(s) >= Len(p) /\ SubSeq(s, 1, Len(p)) = p
HasSuffix(s, p) == Len(s) >= Len(p) /\ SubSeq(s, Len(s) - Len(p) + 1, Len(s)) = p

RECURSIVE SplitFrom(_, _, _)
\* s.split(sep), cur being the part read so far
SplitFrom(s, sep, cur) ==
    IF Len(s) = 0 THEN <<cur>>
    ELSE IF HasPrefix(s, sep)
         THEN <<cur>> \o SplitFrom(SubSeq(s, Len(sep) + 1, Len(s)), sep, <<>>)
         ELSE SplitFrom(Tail(s), sep, Append(cur, s[1]))

\* what stands between "SELECT \n  " and " \nFROM <relation>"
Projection(text) ==
    SubSeq(text, Len(SelectStr) + 1, Len(text) - Len(FromStr) - Len(tmp_table_name))

\* the entries of the projection list of a query text
Entries(text) ==
    IF Len(Projection(text)) = 0 THEN <<>> ELSE SplitFrom(Projection(text), JoinStr, <<>>)

HasExpression(t) == ~IsNone(t) /\ ~IsNone(Val(t).expression)

\* the entry a file field must have
FieldEntryOk(e, f) ==
    IF IsNone(f.transformation) THEN e = f.name
    ELSE IF HasExpression(f.transformation)
         THEN e = Val(Val(f.transformation).expression) \o AsStr \o f.name
         ELSE HasSuffix(e, AsStr \o f.name)

\* the entry an additional column must have
ColumnEntryOk(e, c) ==
    IF ~c.in_request /\ HasExpression(c.transformation)
    THEN e = Val(Val(c.transformation).expression) \o AsStr \o c.name
    ELSE HasSuffix(e, AsStr \o c.name)

\* "SELECT \n  id, \n  UPPER(raw_name) AS name, \n  CURRENT_DATE() AS ingest_date \nFROM tmp_table"
ExpectedQuery ==
    <<"S", "E", "L", "E", "C", "T", " ", "\n", " ", " ", "i", "d", ",",
      " ", "\n", " ", " ", "U", "P", "P", "E", "R", "(", "r", "a", "w",
      "_", "n", "a", "m", "e", ")", " ", "A", "S", " ", "n", "a", "m", "e",
      ",", " ", "\n", " ", " ", "C", "U", "R", "R", "E", "N", "T", "_",
      "D", "A", "T", "E", "(", ")", " ", "A", "S", " ", "i", "n", "g", "e",
      "s", "t", "_", "d", "a", "t", "e", " ", "\n", "F", "R", "O", "M",
      " ", "t", "m", "p", "_", "t", "a", "b", "l", "e">>

\* C14: a query that builds is one SELECT over the relation whose projection
\* list, split at comma-newline, has one entry per file field then one per
\* additional column, in declaration order: a bare name for a field without
\* transformation, "expression AS name" for a field with one and for a
\* static column (an entry aliased AS name in every other case); and the
\* worked example gives exactly the expected text.
C14_QueryShape ==
    (pc = "built" /\ Val(query).kind = "ok")
    => LET text == Val(query).text
           fields == configuration.file_schema
           cols == configuration.additional_columns
           es == Entries(text)
       IN /\ HasPrefix(text, SelectStr)
          /\ HasSuffix(text, FromStr \o tmp_table_name)
          /\ Len(es) = Len(fields) + Len(cols)
          /\ \A i \in 1..Len(fields) : FieldEntryOk(es[i], fields[i])
          /\ \A i \in 1..Len(cols) : ColumnEntryOk(es[Len(fields) + i], cols[i])
          /\ (fields = ExampleStatic.fs /\ cols = ExampleStatic.cols
              /\ tmp_table_name = ExampleStatic.tmp) => text = ExpectedQuery

\* the worked example was built and is the expected text
C14_Witness ==
    /\ pc = "built"
    /\ configuration.file_schema = ExampleStatic.fs
    /\ configuration.additional_columns = ExampleStatic.cols
    /\ Val(query) = Ok(ExpectedQuery)

\* a request value in its literal form: a string between quotes, an int as
\* its digits
Literal(value) ==
    IF value.t = "int" THEN IntToStr(value.n) ELSE <<"'">> \o value.s \o <<"'">>

\* C15: a requested column without transformation expression is projected
\* as the literal form of its request value, aliased AS its name
\* ('upload-api' AS source for the string upload-api).
C15_RequestedValueLiteral ==
    (pc = "built" /\ Val(query).kind = "ok")
    => LET cols == configuration.additional_columns
           es == Entries(Val(query).text)
           nf == Len(configuration.file_schema)
       IN \A i \in 1..Len(cols) :
             (cols[i].in_request /\ ~HasExpression(cols[i].transformation))
             => es[nf + i] = Literal(Matching(additional_columns_request, cols[i].name)[1].value)
                             \o AsStr \o cols[i].name

====
